---- MODULE Spec2Model ----
(***************************************************************************)
(* Event-to-frame accumulation of src/src/imports/EventPreProcess.py, and  *)
(* the epoch loop of src/src/imports/TrainModel.py.                        *)
(*                                                                         *)
(* Timestamps, grid entries and window sizes are integers (one unit is a   *)
(* tick of the event clock; SelectFrames works in hundredths of a time     *)
(* unit).  An image is kept as a function over the sample pixels Pixels:   *)
(* no event of the model touches any other pixel.  Loop indices keep the   *)
(* Python (0-based) values of the source; event_list[i] of the source is   *)
(* event_list[i + 1] here.                                                 *)
(***************************************************************************)
EXTENDS Integers, Sequences, FiniteSets, TLC

\* ------------------------------------------------------------------ bounds
MaxEvents == 2
MaxTime == 3
MaxGrid == 3

\* ------------------------------------------------------- program constants
im_height == 260
im_width == 346
HotRow == 201
HotCol == 154

VARIABLES
    event_list,              \* the events of the current call
    time_steps,              \* the grid of the current call
    time_window,             \* generateFrames: None or a window size
    tsIdx,                   \* position of `for ts in time_steps` (1-based)
    event_iterator,          \* the cursor of the source
    event_images_list,       \* frames appended so far
    pc,                      \* "loop", "done" or "error"
    ret,                     \* the returned value, or the raised error
    hist,                    \* per finished grid step: where it started/stopped
    call,                    \* resumption driver: number of the running call
    saved,                   \* resumption driver: inputs and results of calls
    n_bin,                   \* EventBinning: number of bins
    bin_step_size,           \* EventBinning: width of a bin
    event_leading_iterator,  \* EventBinning: leading cursor
    event_trailing_iterator, \* EventBinning: trailing cursor
    images_ts,               \* SelectFrames: timestamp of each frame
    desired_timesteps,       \* SelectFrames: the targets
    target_step,             \* SelectFrames: the tolerance
    images_iterator,         \* SelectFrames: scan start index
    desired_frames,          \* SelectFrames: indices of the frames selected
    event_bus,               \* generateFrames_temporalROI: events since last frame
    grouped_events_list,     \* extractEventsByTime: groups appended so far
    list_of_current_contact_status,  \* updateContactStatus: the labels
    list_of_rotations,               \* updateContactStatus: reference table
    rotation_angle,                  \* updateContactStatus: angle in degrees
    list_of_rotated_contact_status,  \* updateContactStatus: labels mapped so far
    n_epochs,                \* TrainModel: number of epochs to run
    n_train,                 \* TrainModel: len(train_data), one batch per item
    n_val,                   \* TrainModel: len(val_data)
    epoch,                   \* TrainModel.train: the epoch running or next to run
    i_batch,                 \* TrainModel.train: batches done in this epoch
    train_losses,            \* TrainModel: per epoch, the epoch that wrote it
    val_losses,              \* TrainModel: per epoch, the epoch that wrote it
    lr                       \* TrainModel: per epoch, the epoch that wrote it

callVars == <<call, saved>>
trainVars == <<n_epochs, n_train, n_val, epoch, i_batch, train_losses, val_losses, lr>>
roiVars == <<event_bus>>
exVars == <<grouped_events_list>>
rotVars == <<list_of_current_contact_status, list_of_rotations, rotation_angle,
             list_of_rotated_contact_status>>
ebVars == <<n_bin, bin_step_size, event_leading_iterator, event_trailing_iterator>>
sfVars == <<images_ts, desired_timesteps, target_step, images_iterator,
            desired_frames>>

vars == <<event_list, time_steps, time_window, tsIdx, event_iterator,
          event_images_list, pc, ret, hist, callVars, roiVars, exVars, rotVars, ebVars, sfVars,
          trainVars>>

\* Variables of the operations a specification does not run.
NoCaller == call = 1 /\ saved = <<>>
NoEB == n_bin = 0 /\ bin_step_size = 0 /\ event_leading_iterator = 0
           /\ event_trailing_iterator = 0
NoSF == images_ts = <<>> /\ desired_timesteps = <<>> /\ target_step = 0
           /\ images_iterator = 0 /\ desired_frames = <<>>
NoROI == event_bus = 0
NoTrain == n_epochs = 0 /\ n_train = 0 /\ n_val = 0 /\ epoch = 0 /\ i_batch = 0
              /\ train_losses = <<>> /\ val_losses = <<>> /\ lr = <<>>
NoEX == grouped_events_list = <<>>
NoRot == list_of_current_contact_status = <<>> /\ list_of_rotations = <<>>
            /\ rotation_angle = 0 /\ list_of_rotated_contact_status = <<>>

\* An optional number: None, or <<n>>.
None == <<>>
Some(n) == <<n>>
Value(o) == o[1]
NoRet == [kind |-> "none"]

\* ------------------------------------------------------------------ inputs
\* Sample pixels <<row, column>>; the second is the pixel generateFrames clears.
Pixels == {<<0, 0>>, <<HotRow, HotCol>>}
Polarities == {1, -1}
Times == 0..MaxTime

Events == [x : {p[2] : p \in Pixels}, y : {p[1] : p \in Pixels},
           t : Times, p : Polarities]

InImage(e) == e.y >= 0 /\ e.y < im_height /\ e.x >= 0 /\ e.x < im_width

SampleEvents == {e \in Events : <<e.y, e.x>> \in Pixels /\ InImage(e)}

\* Event lists sorted ascending by timestamp, of length n.
SortedLists(n) ==
    {s \in [1..n -> SampleEvents] : \A i \in 1..(n - 1) : s[i].t <= s[i + 1].t}

EventLists == UNION {SortedLists(n) : n \in 0..MaxEvents}

\* Strictly increasing grids of length n over the values 0..hi.
GridsOfLen(n, hi) ==
    {g \in [1..n -> 0..hi] : \A i \in 1..(n - 1) : g[i] < g[i + 1]}

Grids(lo) == UNION {GridsOfLen(n, MaxTime) : n \in lo..MaxGrid}

\* An array index as numpy resolves it: a negative one counts from the end.
PyIndex(i, n) == IF i < 0 THEN i + n ELSE i

\* event_image[int(event[1]), int(event[0]), ...]: raises IndexError unless
\* both resolved indices are inside the array.
Indexable(e) ==
    /\ PyIndex(e.y, im_height) >= 0 /\ PyIndex(e.y, im_height) < im_height
    /\ PyIndex(e.x, im_width) >= 0 /\ PyIndex(e.x, im_width) < im_width

Pix(e) == <<PyIndex(e.y, im_height), PyIndex(e.x, im_width)>>
ZeroImage == [q \in Pixels |-> 0]

\* ------------------------------------------------------ ConcatenateEvents
\* Values of channel 2 are exact fractions <<numerator, denominator>>.
RECURSIVE Gcd(_, _)
Gcd(a, b) == IF b = 0 THEN a ELSE Gcd(b, a % b)

Frac(n, d) == LET g == Gcd(n, d) IN <<n \div g, d \div g>>
Zero == <<0, 1>>
\* What an element of a freshly allocated, never written array can hold:
\* zero, or any other bit pattern (a finite value, NaN, Inf).
Garbage == <<1, 0>>
Uninitialized == {Zero, Garbage}

Abs(n) == IF n < 0 THEN -n ELSE n

NewAcc == [ch0 |-> ZeroImage, ch1 |-> ZeroImage,
           counter_matrix |-> ZeroImage, timestamp_matrix |-> ZeroImage]

\* The else-branch of the inner loop: count the event and add its residual
\* numerator |ts - t - time_step| (the division by time_step is in Channel2).
AccumulateCE(acc, event, ts, time_step) ==
    LET q == Pix(event) IN
    [ch0 |-> IF event.p > 0 THEN [acc.ch0 EXCEPT ![q] = @ + 1] ELSE acc.ch0,
     ch1 |-> IF event.p > 0 THEN acc.ch1 ELSE [acc.ch1 EXCEPT ![q] = @ + 1],
     counter_matrix |-> [acc.counter_matrix EXCEPT ![q] = @ + 1],
     timestamp_matrix |->
         [acc.timestamp_matrix EXCEPT ![q] = @ + Abs(ts - event.t - time_step)]]

\* The inner loop from Python index i: stops at the first event with
\* timestamp > ts (broke, at = its index) or at the end of the list.
RECURSIVE ScanCE(_, _, _, _, _)
ScanCE(E, i, ts, time_step, acc) ==
    IF i >= Len(E) THEN [broke |-> FALSE, at |-> i, acc |-> acc]
    ELSE IF E[i + 1].t > ts THEN [broke |-> TRUE, at |-> i, acc |-> acc]
    ELSE ScanCE(E, i + 1, ts, time_step, AccumulateCE(acc, E[i + 1], ts, time_step))

\* event_iterator after the inner loop: i + 1 of the last iteration run.
CursorAfterCE(E, it, r) ==
    IF r.broke THEN r.at + 1
    ELSE IF it < Len(E) THEN Len(E) ELSE it

EmitsAlways(r) == TRUE

\* A frame is appended only in the branch that breaks the inner loop.
Emits(r) == r.broke

\* np.divide(timestamp_matrix, counter_matrix, where=counter_matrix != 0)
\* with no out= array: the quotient where the counter is not zero, and
\* whatever the fresh result array held (u) where it is zero.
Channel2(acc, time_step, u) ==
    [q \in Pixels |->
        IF acc.counter_matrix[q] # 0
        THEN Frac(acc.timestamp_matrix[q], time_step * acc.counter_matrix[q])
        ELSE u[q]]

FrameCE(acc, time_step, u) ==
    [ch0 |-> acc.ch0, ch1 |-> acc.ch1, ch2 |-> Channel2(acc, time_step, u)]

TimeStep(G) == G[Len(G)] - G[Len(G) - 1]

Remainder(E, it) == SubSeq(E, it + 1, Len(E))

\* One iteration of `for ts in time_steps`.
CE_Step ==
    /\ pc = "loop"
    /\ tsIdx <= Len(time_steps)
    /\ IF Len(event_list) = 0
       THEN \* the progress print divides by len(event_list)
            /\ pc' = "error"
            /\ ret' = [kind |-> "error", error |-> "ZeroDivisionError"]
            /\ UNCHANGED <<tsIdx, event_iterator, event_images_list, hist>>
       ELSE LET ts == time_steps[tsIdx]
                step == TimeStep(time_steps)
                r == ScanCE(event_list, event_iterator, ts, step, NewAcc)
            IN  /\ \E u \in [Pixels -> Uninitialized] :
                       event_images_list' =
                           IF Emits(r)
                           THEN Append(event_images_list, FrameCE(r.acc, step, u))
                           ELSE event_images_list
                /\ event_iterator' = CursorAfterCE(event_list, event_iterator, r)
                /\ hist' = Append(hist, [start |-> event_iterator,
                                         broke |-> r.broke, at |-> r.at,
                                         nframes |-> Len(event_images_list')])
                /\ tsIdx' = tsIdx + 1
                /\ UNCHANGED <<pc, ret>>
    /\ UNCHANGED <<event_list, time_steps, time_window, callVars, roiVars, exVars, rotVars, ebVars, sfVars,
                   trainVars>>

\* return event_images_list, event_list[event_iterator:len(event_list)]
CE_Return ==
    /\ pc = "loop"
    /\ tsIdx > Len(time_steps)
    /\ pc' = "done"
    /\ ret' = [kind |-> "value", frames |-> event_images_list,
               rest |-> Remainder(event_list, event_iterator)]
    /\ UNCHANGED <<event_list, time_steps, time_window, tsIdx, event_iterator,
                   event_images_list, hist, callVars, roiVars, exVars, rotVars, ebVars, sfVars,
                   trainVars>>

Entry(E, G, tw) ==
    /\ event_list = E
    /\ time_steps = G
    /\ time_window = tw
    /\ tsIdx = 1
    /\ event_iterator = 0
    /\ event_images_list = <<>>
    /\ pc = "loop"
    /\ ret = NoRet
    /\ hist = <<>>

InitCE ==
    /\ \E E \in EventLists, G \in Grids(2) : Entry(E, G, None)
    /\ NoTrain /\ NoCaller /\ NoROI /\ NoEX /\ NoRot /\ NoEB /\ NoSF

NextCE == CE_Step \/ CE_Return

SpecCE == InitCE /\ [][NextCE]_vars

\* ------------------------------------------- resuming from the remainder
\* A caller runs ConcatenateEvents(E, G), then ConcatenateEvents(E, G1) and
\* ConcatenateEvents(remainder, G2) for G = G1 ++ G2, each part of at least
\* MinGrid entries; saved.results keeps what each finished call gave.
MinGrid == 2

ResumeGrids ==
    UNION {GridsOfLen(n, MaxTime + 1) : n \in (2 * MinGrid)..(MaxGrid + 1)}

Finished == pc \in {"done", "error"}

Restart(E, G) ==
    /\ event_list' = E
    /\ time_steps' = G
    /\ tsIdx' = 1
    /\ event_iterator' = 0
    /\ event_images_list' = <<>>
    /\ pc' = "loop"
    /\ ret' = NoRet
    /\ hist' = <<>>
    /\ UNCHANGED <<time_window, ebVars, sfVars, roiVars, exVars, rotVars,
                   trainVars>>

Resume ==
    /\ Finished
    /\ \/ /\ call = 1
          /\ Restart(saved.E, SubSeq(saved.G, 1, saved.split))
       \/ /\ call = 2
          /\ ret.kind = "value"
          /\ Restart(ret.rest, SubSeq(saved.G, saved.split + 1, Len(saved.G)))
    /\ call' = call + 1
    /\ saved' = [saved EXCEPT !.results = Append(@, ret)]

InitResume ==
    /\ \E E \in EventLists, G \in ResumeGrids :
          /\ Entry(E, G, None)
          /\ \E n \in MinGrid..(Len(G) - MinGrid) :
                 saved = [E |-> E, G |-> G, split |-> n, results |-> <<>>]
    /\ call = 1
    /\ NoEB /\ NoSF /\ NoROI /\ NoEX /\ NoRot /\ NoTrain

NextResume == CE_Step \/ CE_Return \/ Resume

SpecResume == InitResume /\ [][NextResume]_vars

\* ------------------------------------------------ claims: ConcatenateEvents
RECURSIVE SumOver(_, _)
SumOver(S, f) ==
    IF S = {} THEN 0
    ELSE LET q == CHOOSE q \in S : TRUE IN f[q] + SumOver(S \ {q}, f)

RECURSIVE CountedIn(_)
CountedIn(frames) ==
    IF frames = <<>> THEN 0
    ELSE SumOver(Pixels, Head(frames).ch0) + SumOver(Pixels, Head(frames).ch1)
         + CountedIn(Tail(frames))

FramesBefore(k) == IF k = 1 THEN 0 ELSE hist[k - 1].nframes
Emitted(k) == hist[k].nframes = FramesBefore(k) + 1

\* C1: when ConcatenateEvents has returned, the channel-0 and channel-1
\* counts of all returned frames plus the length of the returned remainder
\* equal the number of input events.
C1_Conservation ==
    pc = "done" => CountedIn(ret.frames) + Len(ret.rest) = Len(event_list)

\* C2: the event with timestamp > ts that ends a grid step is not passed by
\* the cursor: the next grid step starts at it, and after the last grid step
\* it is the first event of the returned remainder.
C2_BoundaryEventKept ==
    \A k \in 1..Len(hist) :
        hist[k].broke =>
            /\ k < Len(hist) => hist[k + 1].start = hist[k].at
            /\ (pc = "done" /\ k = Len(time_steps)) =>
                   ret.rest = Remainder(event_list, hist[k].at)

\* C3: when the single call over G has returned, the call over G1 followed
\* by the call over G2 on its remainder returns the same frames,
\* concatenated, and the same final remainder.
C3_Resumption ==
    (call = 3 \/ (call = 2 /\ pc = "error")) /\ Finished
        /\ saved.results[1].kind = "value" =>
            /\ call = 3
            /\ ret.kind = "value"
            /\ saved.results[2].frames \o ret.frames = saved.results[1].frames
            /\ ret.rest = saved.results[1].rest

\* C7: in every frame a pixel that received no event in its grid step has
\* exactly zero in channel 2.
C7_ZeroCountPixelIsZero ==
    \A k \in 1..Len(event_images_list) : \A q \in Pixels :
        LET f == event_images_list[k] IN
        f.ch0[q] + f.ch1[q] = 0 => f.ch2[q] = Zero

\* C8: a frame is appended for a grid timestamp exactly when an event with a
\* larger timestamp is found from the cursor on; the grid steps that append
\* a frame form a prefix of the grid, and after a step that reaches the end
\* of the list no frame is appended.
C8_FramesForPrefix ==
    /\ \A k \in 1..Len(hist) :
          LET found == \E j \in (hist[k].start + 1)..Len(event_list) :
                          event_list[j].t > time_steps[k]
          IN  /\ Emitted(k) <=> found
              /\ ~Emitted(k) => hist[k].nframes = FramesBefore(k)
              /\ \A l \in 1..(k - 1) : Emitted(k) => Emitted(l)
    /\ Len(event_images_list) = IF hist = <<>> THEN 0 ELSE hist[Len(hist)].nframes

C8_Witness ==
    /\ pc = "done"
    /\ Len(hist) = Len(time_steps)
    /\ \E k \in 1..Len(hist) : \E l \in (k + 1)..Len(hist) :
          /\ Emitted(k) /\ ~Emitted(l)
          /\ hist[l].start < Len(event_list)

\* C17: a call with an empty event list and a grid of at least two entries
\* returns no frames and an empty remainder, and raises nothing.
C17_EmptyStreamReturnsEmpty ==
    (Len(event_list) = 0 /\ Len(time_steps) >= MinGrid /\ Finished) =>
        /\ pc = "done"
        /\ ret.frames = <<>>
        /\ ret.rest = <<>>

\* --------------------------------------------------------- generateFrames
MaxWindow == 2

\* time_window: unset, or a number (a caller can pass a negative one).
Windows == {None} \cup {Some(w) : w \in (0 - 1)..MaxWindow}

IncludedShifted(event, ts, tw) == tw = None \/ event.t > ts + Value(tw)

\* (time_window==None) or (event[2] > ts - time_window)
Included(event, ts, tw) == tw = None \/ event.t > ts - Value(tw)

\* +1 for positive polarity, -1 otherwise.
AccumulateGF(img, event) ==
    IF event.p > 0 THEN [img EXCEPT ![Pix(event)] = @ + 1]
    ELSE [img EXCEPT ![Pix(event)] = @ - 1]

\* The inner loop from Python index i: the stop test is made only on an
\* event that passed the inclusion test.
RECURSIVE ScanGF(_, _, _, _, _)
ScanGF(E, i, ts, tw, img) ==
    IF i >= Len(E) THEN [ok |-> TRUE, broke |-> FALSE, at |-> i, img |-> img]
    ELSE IF Included(E[i + 1], ts, tw)
         THEN IF E[i + 1].t > ts
              THEN [ok |-> TRUE, broke |-> TRUE, at |-> i, img |-> img]
              ELSE IF ~Indexable(E[i + 1])
                   THEN [ok |-> FALSE, broke |-> FALSE, at |-> i, img |-> img]
                   ELSE ScanGF(E, i + 1, ts, tw, AccumulateGF(img, E[i + 1]))
         ELSE ScanGF(E, i + 1, ts, tw, img)

CursorAfterGF(E, it, r) ==
    IF r.broke THEN r.at + 1
    ELSE IF it < Len(E) THEN Len(E) ELSE it

\* event_image[201, 154, 0] = 0, done on the frame about to be appended.
HotPixel == <<HotRow, HotCol>>
HotInImage == HotRow < im_height /\ HotCol < im_width
ClearHot(img) == [img EXCEPT ![HotPixel] = 0]

\* One iteration of `for ts in time_steps`.
GF_Step ==
    /\ pc = "loop"
    /\ tsIdx <= Len(time_steps)
    /\ LET ts == time_steps[tsIdx]
           r == ScanGF(event_list, event_iterator, ts, time_window, ZeroImage)
       IN  IF ~r.ok \/ (r.broke /\ ~HotInImage)
           THEN /\ pc' = "error"
                /\ ret' = [kind |-> "error", error |-> "IndexError"]
                /\ UNCHANGED <<tsIdx, event_iterator, event_images_list, hist>>
           ELSE /\ event_images_list' =
                       IF r.broke THEN Append(event_images_list, ClearHot(r.img))
                       ELSE event_images_list
                /\ event_iterator' = CursorAfterGF(event_list, event_iterator, r)
                /\ hist' = Append(hist, [start |-> event_iterator,
                                         broke |-> r.broke, at |-> r.at,
                                         nframes |-> Len(event_images_list')])
                /\ tsIdx' = tsIdx + 1
                /\ UNCHANGED <<pc, ret>>
    /\ UNCHANGED <<event_list, time_steps, time_window, callVars, roiVars, exVars, rotVars, ebVars, sfVars,
                   trainVars>>

GF_Return ==
    /\ pc = "loop"
    /\ tsIdx > Len(time_steps)
    /\ pc' = "done"
    /\ ret' = [kind |-> "value", frames |-> event_images_list,
               rest |-> Remainder(event_list, event_iterator)]
    /\ UNCHANGED <<event_list, time_steps, time_window, tsIdx, event_iterator,
                   event_images_list, hist, callVars, roiVars, exVars, rotVars, ebVars, sfVars,
                   trainVars>>

InitGF ==
    /\ \E E \in EventLists, G \in Grids(1), tw \in Windows : Entry(E, G, tw)
    /\ NoTrain /\ NoCaller /\ NoROI /\ NoEX /\ NoRot /\ NoEB /\ NoSF

NextGF == GF_Step \/ GF_Return

SpecGF == InitGF /\ [][NextGF]_vars

\* Calls whose events can lie outside the image: one column and row before
\* index 0 by a whole image, or one column past the last.
OutsideEvents ==
    {[x |-> 0 - im_width, y |-> 0 - im_height, t |-> t, p |-> 1] : t \in Times}
        \cup {[x |-> im_width, y |-> 0, t |-> t, p |-> 1] : t \in Times}

AnyEvents == OutsideEvents \cup {e \in SampleEvents : e.p > 0 /\ Pix(e) = <<0, 0>>}

AnyEventLists ==
    UNION {{s \in [1..n -> AnyEvents] : \A i \in 1..(n - 1) : s[i].t <= s[i + 1].t}
              : n \in 0..MaxEvents}

InitGFAny ==
    /\ \E E \in AnyEventLists, G \in Grids(1), tw \in Windows : Entry(E, G, tw)
    /\ NoTrain /\ NoCaller /\ NoROI /\ NoEX /\ NoRot /\ NoEB /\ NoSF

SpecGFAny == InitGFAny /\ [][NextGF]_vars

\* --------------------------------------------------- claims: generateFrames
\* Indices (1-based) of the events examined in finished grid step k before
\* the event that ended it.
ExaminedBefore(k) ==
    IF hist[k].broke THEN (hist[k].start + 1)..hist[k].at
    ELSE (hist[k].start + 1)..Len(event_list)

InWindow(j, k) ==
    time_window = None \/ event_list[j].t > time_steps[k] - Value(time_window)

SignedCount(k, q) ==
    Cardinality({j \in ExaminedBefore(k) :
                    InWindow(j, k) /\ Pix(event_list[j]) = q /\ event_list[j].p > 0})
    - Cardinality({j \in ExaminedBefore(k) :
                    InWindow(j, k) /\ Pix(event_list[j]) = q /\ event_list[j].p <= 0})

\* C9: in every emitted frame every pixel holds the number of positive minus
\* the number of non-positive events included at that pixel in its grid step.
C9_SignedCount ==
    \A k \in 1..Len(hist) :
        hist[k].broke =>
            \A q \in Pixels : event_images_list[hist[k].nframes][q] = SignedCount(k, q)

\* The grid step k ended at the first examined event with timestamp > ts,
\* and passed no such event when it reached the end of the list.
EndsAtFirstLater(k) ==
    /\ \A j \in ExaminedBefore(k) : event_list[j].t <= time_steps[k]
    /\ hist[k].broke => event_list[hist[k].at + 1].t > time_steps[k]

\* C10 as stated: for any time_window value every grid step ends at the first
\* examined event with timestamp > ts.
C10_StopTestIndependent == \A k \in 1..Len(hist) : EndsAtFirstLater(k)

\* C10, amended: the same for time_window unset or not negative.
C10_StopTestNonNegativeWindow ==
    (time_window = None \/ Value(time_window) >= 0) =>
        \A k \in 1..Len(hist) : EndsAtFirstLater(k)

\* A step of a windowed call that skipped an event older than the window and
\* then ended at an event later than ts.
C10_Witness ==
    /\ time_window # None /\ Value(time_window) > 0
    /\ \E k \in 1..Len(hist) :
          /\ hist[k].broke
          /\ \E j \in ExaminedBefore(k) : ~InWindow(j, k)

\* C18: an event outside the image changes no pixel of any frame: no
\* emitted frame has accumulated one (the call fails instead).
C18_OutOfBoundsGuarded ==
    \A k \in 1..Len(hist) :
        hist[k].broke =>
            \A j \in ExaminedBefore(k) : InWindow(j, k) => InImage(event_list[j])

\* ----------------------------------------------------------- EventBinning
MaxBins == 2
MaxEBEvents == 3
MaxBinStep == 2

ZeroBins(n) == [q \in Pixels |-> [c \in 0..(n - 1) |-> 0]]

\* First loop: the first index from `lead` on whose event has timestamp > ts;
\* the cursor keeps its value when there is none.
RECURSIVE Leading(_, _, _, _)
Leading(E, lead, i, ts) ==
    IF i >= Len(E) THEN lead
    ELSE IF E[i + 1].t > ts THEN i
    ELSE Leading(E, lead, i + 1, ts)

RECURSIVE TrailingToEnd(_, _, _, _, _)
TrailingToEnd(E, trail, i, lead, bound) ==
    IF i >= Len(E) THEN trail
    ELSE IF E[i + 1].t > bound THEN i
    ELSE TrailingToEnd(E, trail, i + 1, lead, bound)

\* Second loop: the first index in [trail, lead) whose event has
\* timestamp > bound; the cursor keeps its value when there is none.
RECURSIVE Trailing(_, _, _, _, _)
Trailing(E, trail, i, lead, bound) ==
    IF i >= lead THEN trail
    ELSE IF E[i + 1].t > bound THEN i
    ELSE Trailing(E, trail, i + 1, lead, bound)

\* floor(a / b) for b # 0.
FloorDiv(a, b) == IF b > 0 THEN a \div b ELSE (0 - a) \div (0 - b)

\* np.floor((ts - event[2]) / bin_step_size)
Channel(ts, event, step) == FloorDiv(ts - event.t, step)

\* Third loop over [i, lead): add the polarity at [y, x, channel].  An index
\* outside [-n, n) raises IndexError; a negative one inside counts from the end.
RECURSIVE FillEB(_, _, _, _, _, _, _)
FillEB(E, i, lead, ts, n, step, img) ==
    IF i >= lead THEN [ok |-> TRUE, at |-> i, img |-> img]
    ELSE LET event == E[i + 1]
             c == Channel(ts, event, step)
         IN  IF c >= n \/ c < 0 - n THEN [ok |-> FALSE, at |-> i, img |-> img]
             ELSE FillEB(E, i + 1, lead, ts, n, step,
                         [img EXCEPT ![Pix(event)][c % n] = @ + event.p])

\* One iteration of `for ts in time_steps`.
EB_Step ==
    /\ pc = "loop"
    /\ tsIdx <= Len(time_steps)
    /\ IF Len(event_list) = 0
       THEN \* the progress print divides by len(event_list)
            /\ pc' = "error"
            /\ ret' = [kind |-> "error", error |-> "ZeroDivisionError"]
            /\ UNCHANGED <<tsIdx, event_images_list, hist,
                           event_leading_iterator, event_trailing_iterator>>
       ELSE LET ts == time_steps[tsIdx]
                lead == Leading(event_list, event_leading_iterator,
                                event_leading_iterator, ts)
                trail == Trailing(event_list, event_trailing_iterator,
                                  event_trailing_iterator, lead,
                                  ts - n_bin * bin_step_size)
                r == FillEB(event_list, trail, lead, ts, n_bin, bin_step_size,
                            ZeroBins(n_bin))
            IN  /\ event_leading_iterator' = lead
                /\ event_trailing_iterator' = trail
                /\ IF r.ok
                   THEN /\ event_images_list' = Append(event_images_list, r.img)
                        /\ hist' = Append(hist, [lead |-> lead, trail |-> trail,
                                                 nframes |-> Len(event_images_list')])
                        /\ tsIdx' = tsIdx + 1
                        /\ UNCHANGED <<pc, ret>>
                   ELSE /\ pc' = "error"
                        /\ ret' = [kind |-> "error", error |-> "IndexError",
                                   at |-> r.at, ts |-> ts]
                        /\ UNCHANGED <<tsIdx, event_images_list, hist>>
    /\ UNCHANGED <<event_list, time_steps, time_window, event_iterator,
                   n_bin, bin_step_size, callVars, roiVars, exVars, rotVars, sfVars,
                   trainVars>>

\* return event_images_list
EB_Return ==
    /\ pc = "loop"
    /\ tsIdx > Len(time_steps)
    /\ pc' = "done"
    /\ ret' = [kind |-> "value", frames |-> event_images_list]
    /\ UNCHANGED <<event_list, time_steps, time_window, tsIdx, event_iterator,
                   event_images_list, hist, callVars, roiVars, exVars, rotVars, ebVars, sfVars,
                   trainVars>>

\* The trailing cursor moves only in lists of three or more events, so the
\* lists are longer here, over two kinds of event: positive at one sample
\* pixel, negative at the other.
EBEvents == {e \in SampleEvents : e.p > 0 <=> Pix(e) = <<0, 0>>}

EBLists ==
    UNION {{s \in [1..n -> EBEvents] : \A i \in 1..(n - 1) : s[i].t <= s[i + 1].t} :
              n \in 0..MaxEBEvents}

InitEB ==
    /\ \E E \in EBLists, G \in Grids(0) : Entry(E, G, None)
    /\ n_bin \in 1..MaxBins
    /\ bin_step_size \in 1..MaxBinStep
    /\ event_leading_iterator = 0
    /\ event_trailing_iterator = 0
    /\ NoTrain /\ NoCaller /\ NoROI /\ NoEX /\ NoRot /\ NoSF

NextEB == EB_Step \/ EB_Return

SpecEB == InitEB /\ [][NextEB]_vars

\* Calls whose bin width can be misconfigured as negative.
BinSteps == {0 - 1} \cup 1..MaxBinStep

InitEBAny ==
    /\ \E E \in EBLists, G \in Grids(0) : Entry(E, G, None)
    /\ n_bin \in 1..MaxBins
    /\ bin_step_size \in BinSteps
    /\ event_leading_iterator = 0
    /\ event_trailing_iterator = 0
    /\ NoTrain /\ NoCaller /\ NoROI /\ NoEX /\ NoRot /\ NoSF

SpecEBAny == InitEBAny /\ [][NextEB]_vars

\* ----------------------------------------------------- claims: EventBinning
\* C5: called with an empty event list, EventBinning raises nothing and
\* returns one all-zero frame per grid entry.
C5_EmptyInputZeroFrames ==
    (Len(event_list) = 0 /\ Finished) =>
        /\ pc = "done"
        /\ Len(ret.frames) = Len(time_steps)
        /\ \A k \in 1..Len(ret.frames) : ret.frames[k] = ZeroBins(n_bin)

\* C6: an event with timestamp ts - n_bin*bin_step_size is outside the events
\* written into the frame for ts, and the call does not fail on it.
C6_BoundaryEventExcluded ==
    /\ \A k \in 1..Len(hist) : \A j \in (hist[k].trail + 1)..hist[k].lead :
          event_list[j].t # time_steps[k] - n_bin * bin_step_size
    /\ (pc = "error" /\ ret.error = "IndexError") =>
          event_list[ret.at + 1].t # ret.ts - n_bin * bin_step_size

\* C12: for a non-empty event list EventBinning returns exactly one frame per
\* grid entry.
C12_FramePerGridEntry ==
    (Len(event_list) > 0 /\ Finished) =>
        /\ pc = "done"
        /\ Len(ret.frames) = Len(time_steps)

\* Sum of the polarities of the events at pixel q with
\* ts - n_bin*bin_step_size < timestamp <= ts whose channel is c.
WindowSum(ts, q, c) ==
    LET in == {j \in 1..Len(event_list) :
                  /\ ts - n_bin * bin_step_size < event_list[j].t
                  /\ event_list[j].t <= ts
                  /\ Pix(event_list[j]) = q
                  /\ (ts - event_list[j].t) \div bin_step_size = c}
    IN  Cardinality({j \in in : event_list[j].p = 1})
        - Cardinality({j \in in : event_list[j].p = 0 - 1})

\* C13: the frame for ts holds, at [y, x, floor((ts - t)/bin_step_size)], the
\* polarities of exactly the events with ts - n_bin*bin_step_size < t <= ts,
\* events at the end of the list included.
C13_FrameContent ==
    \A k \in 1..Len(hist) : \A q \in Pixels : \A c \in 0..(n_bin - 1) :
        event_images_list[hist[k].nframes][q][c] = WindowSum(time_steps[k], q, c)

\* C20: the cursors never decrease, and 0 <= trailing <= leading <=
\* len(event_list) holds after the cursor updates of every grid step.
C20_CursorsOrdered ==
    /\ [](/\ 0 <= event_trailing_iterator
          /\ event_trailing_iterator <= event_leading_iterator
          /\ event_leading_iterator <= Len(event_list))
    /\ [][/\ event_leading_iterator' >= event_leading_iterator
          /\ event_trailing_iterator' >= event_trailing_iterator]_vars

\* Both cursors have moved, the trailing one behind the leading one.
C20_Witness ==
    /\ pc = "done"
    /\ 0 < event_trailing_iterator
    /\ event_trailing_iterator < event_leading_iterator

\* C21: an event whose channel index falls outside [0, n_bin) makes the
\* call fail and is written to no channel: every event of an emitted frame
\* had its channel index inside [0, n_bin).
C21_BinIndexGuarded ==
    \A k \in 1..Len(hist) :
        \A j \in (hist[k].trail + 1)..hist[k].lead :
            LET c == Channel(time_steps[k], event_list[j], bin_step_size)
            IN  c >= 0 /\ c < n_bin

\* ----------------------------------------------------------- SelectFrames
MaxFrames == 3
MaxTargets == 3

\* `> 1` of the abandon test, in hundredths of a time unit.
AbandonGap == 100

\* Timestamps and tolerances in hundredths of a time unit.
Stamps == {0, 10, 20, 25, 130}
Tolerances == {6, 15}

Ascending(n, S) ==
    {s \in [1..n -> S] : \A i \in 1..(n - 1) : s[i] <= s[i + 1]}

WithinStepSigned(frame_ts, ts, tol) == frame_ts - ts < tol

\* np.abs(images_ts[i] - ts) < target_step
WithinStep(frame_ts, ts, tol) == Abs(frame_ts - ts) < tol

\* The inner loop from index i: accept the first frame within the tolerance;
\* give up at a frame more than AbandonGap later than the target.
RECURSIVE ScanSF(_, _, _, _)
ScanSF(T, i, ts, tol) ==
    IF i >= Len(T) THEN [found |-> FALSE, at |-> i]
    ELSE IF WithinStep(T[i + 1], ts, tol) THEN [found |-> TRUE, at |-> i]
    ELSE IF T[i + 1] - ts > AbandonGap THEN [found |-> FALSE, at |-> i]
    ELSE ScanSF(T, i + 1, ts, tol)

NextScanStartSame(r, it) == IF r.found THEN r.at ELSE it

NextScanStartPast(r, it) == r.at + 1

\* images_iterator = i + 1, done only when a frame is accepted.
NextScanStart(r, it) == IF r.found THEN r.at + 1 ELSE it

\* One iteration of `for ts in desired_timesteps`; a frame is named by its
\* index in images_list.
Select_Step ==
    /\ pc = "loop"
    /\ tsIdx <= Len(desired_timesteps)
    /\ LET r == ScanSF(images_ts, images_iterator, desired_timesteps[tsIdx],
                       target_step)
       IN  /\ desired_frames' =
                  IF r.found THEN Append(desired_frames, r.at) ELSE desired_frames
           /\ images_iterator' = NextScanStart(r, images_iterator)
           /\ hist' = Append(hist, [start |-> images_iterator,
                                    found |-> r.found, at |-> r.at])
    /\ tsIdx' = tsIdx + 1
    /\ UNCHANGED <<event_list, time_steps, time_window, event_iterator,
                   event_images_list, pc, ret, callVars, roiVars, exVars, rotVars, ebVars,
                   images_ts, desired_timesteps, target_step,
                   trainVars>>

\* return(desired_frames)
Select_Return ==
    /\ pc = "loop"
    /\ tsIdx > Len(desired_timesteps)
    /\ pc' = "done"
    /\ ret' = [kind |-> "value", frames |-> desired_frames]
    /\ UNCHANGED <<event_list, time_steps, time_window, tsIdx, event_iterator,
                   event_images_list, hist, callVars, roiVars, exVars, rotVars, ebVars, sfVars,
                   trainVars>>

InitSF ==
    /\ Entry(<<>>, <<>>, None)
    /\ images_ts \in UNION {Ascending(n, Stamps) : n \in 0..MaxFrames}
    /\ desired_timesteps \in UNION {Ascending(n, Stamps) : n \in 0..MaxTargets}
    /\ target_step \in Tolerances
    /\ images_iterator = 0
    /\ desired_frames = <<>>
    /\ NoTrain /\ NoCaller /\ NoROI /\ NoEX /\ NoRot /\ NoEB

NextSF == Select_Step \/ Select_Return

SpecSF == InitSF /\ [][NextSF]_vars

\* Calls whose timestamps and targets are in no particular order.
AnyOrder(n, S) == [1..n -> S]
FewStamps == {s \in Stamps : s \notin {20, 25}}

InitSFAny ==
    /\ Entry(<<>>, <<>>, None)
    /\ images_ts \in UNION {AnyOrder(n, FewStamps) : n \in 0..MaxFrames}
    /\ desired_timesteps \in UNION {AnyOrder(n, FewStamps) : n \in 0..MaxTargets}
    /\ target_step \in Tolerances
    /\ images_iterator = 0
    /\ desired_frames = <<>>
    /\ NoTrain /\ NoCaller /\ NoROI /\ NoEX /\ NoRot /\ NoEB

SpecSFAny == InitSFAny /\ [][NextSF]_vars

\* ----------------------------------------------------- claims: SelectFrames
\* Frames at 0.0, 0.1, 0.25, targets 0.0 and 0.2, tolerance 0.06.
C4_Example ==
    /\ images_ts = <<0, 10, 25>>
    /\ desired_timesteps = <<0, 20>>
    /\ target_step = 6
    /\ pc = "done"

\* C4 as stated: on the example SelectFrames returns exactly the frame at 0.0.
C4_OnlyFirstFrame == C4_Example => ret.frames = <<0>>

\* C4, amended: on the example SelectFrames returns the frame at 0.0 and the
\* frame at 0.25, which is within 0.06 of the target 0.2.
C4_FirstAndThirdFrame == C4_Example => ret.frames = <<0, 2>>

C4_Witness == C4_Example /\ Len(ret.frames) = 2

\* C15: at most one frame per target, an unmatched target adds nothing, and
\* the returned frames have strictly increasing indices in the frame list.
C15_OutputShape ==
    /\ [](/\ Len(desired_frames) <= tsIdx - 1
          /\ tsIdx - 1 <= Len(desired_timesteps)
          /\ \A a \in 1..Len(desired_frames) :
                /\ 0 <= desired_frames[a] /\ desired_frames[a] < Len(images_ts)
                /\ a > 1 => desired_frames[a - 1] < desired_frames[a]
          /\ pc = "done" => /\ ret.frames = desired_frames
                            /\ Len(ret.frames) <= Len(desired_timesteps))
    /\ [][desired_frames' # desired_frames =>
             \E i \in images_iterator..(Len(images_ts) - 1) :
                /\ Abs(images_ts[i + 1] - desired_timesteps[tsIdx]) < target_step
                /\ desired_frames' = Append(desired_frames, i)]_vars

\* A call that returned two frames and left a target unmatched.
C15_Witness ==
    /\ pc = "done"
    /\ Len(ret.frames) = 2
    /\ Len(desired_timesteps) = 3

\* The scan start index of the target after finished target k.
StartAfter(k) == IF k < Len(hist) THEN hist[k + 1].start ELSE images_iterator

\* The search for target k was abandoned at a frame (it neither accepted a
\* frame nor reached the end of the list).
Abandoned(k) == ~hist[k].found /\ hist[k].at < Len(images_ts)

MaxROIEvents == 6

\* The count threshold: 10000 in the source, kept small here.
event_threshold_classifier == 2

Kinds == Pixels \X Polarities

\* The function reads neither event timestamps nor grid values: the lists
\* below carry the timestamps 0, 1, ... (capped at MaxTime) and the grid of
\* n entries is 0 .. n-1.
ROIList(k) ==
    [i \in DOMAIN k |->
        [x |-> k[i][1][2], y |-> k[i][1][1],
         t |-> IF i - 1 > MaxTime THEN MaxTime ELSE i - 1, p |-> k[i][2]]]

ROILists == UNION {{ROIList(k) : k \in [1..n -> Kinds]} : n \in 0..MaxROIEvents}

ROIGrids == {[i \in 1..n |-> i - 1] : n \in 1..MaxGrid}

AccumulateROI(img, event) ==
    IF event.p > 0 THEN [img EXCEPT ![Pix(event)] = @ + 1]
    ELSE [img EXCEPT ![Pix(event)] = @ - 1]

\* The inner loop from Python index i: stops (broke) at the event examined
\* when event_bus has reached the threshold, resetting event_bus.
RECURSIVE ScanROI(_, _, _, _)
ScanROI(E, i, bus, img) ==
    IF i >= Len(E) THEN [broke |-> FALSE, at |-> i, bus |-> bus, img |-> img]
    ELSE IF bus = event_threshold_classifier
         THEN [broke |-> TRUE, at |-> i, bus |-> 0, img |-> img]
         ELSE ScanROI(E, i + 1, bus + 1, AccumulateROI(img, E[i + 1]))

CursorAfterROIKeep(E, it, r) ==
    IF r.broke THEN r.at
    ELSE IF it < Len(E) THEN Len(E) ELSE it

\* event_iterator = i + 1, set at the top of every iteration.
CursorAfterROI(E, it, r) ==
    IF r.broke THEN r.at + 1
    ELSE IF it < Len(E) THEN Len(E) ELSE it

\* One iteration of `for ts in time_steps`.
ROI_Step ==
    /\ pc = "loop"
    /\ tsIdx <= Len(time_steps)
    /\ LET r == ScanROI(event_list, event_iterator, event_bus, ZeroImage)
       IN  IF r.broke /\ ~HotInImage
           THEN /\ pc' = "error"
                /\ ret' = [kind |-> "error", error |-> "IndexError"]
                /\ UNCHANGED <<tsIdx, event_iterator, event_images_list, hist,
                               event_bus>>
           ELSE /\ event_images_list' =
                       IF r.broke THEN Append(event_images_list, ClearHot(r.img))
                       ELSE event_images_list
                /\ event_iterator' = CursorAfterROI(event_list, event_iterator, r)
                /\ event_bus' = r.bus
                /\ hist' = Append(hist, [start |-> event_iterator,
                                         broke |-> r.broke, at |-> r.at,
                                         bus |-> r.bus,
                                         nframes |-> Len(event_images_list')])
                /\ tsIdx' = tsIdx + 1
                /\ UNCHANGED <<pc, ret>>
    /\ UNCHANGED <<event_list, time_steps, time_window, callVars, exVars,
                   rotVars, ebVars, sfVars,
                   trainVars>>

ROI_Return ==
    /\ pc = "loop"
    /\ tsIdx > Len(time_steps)
    /\ pc' = "done"
    /\ ret' = [kind |-> "value", frames |-> event_images_list,
               rest |-> Remainder(event_list, event_iterator)]
    /\ UNCHANGED <<event_list, time_steps, time_window, tsIdx, event_iterator,
                   event_images_list, hist, callVars, roiVars, exVars, rotVars,
                   ebVars, sfVars,
                   trainVars>>

InitROI ==
    /\ \E E \in ROILists, G \in ROIGrids : Entry(E, G, None)
    /\ event_bus = 0
    /\ NoTrain /\ NoCaller /\ NoEX /\ NoRot /\ NoEB /\ NoSF

NextROI == ROI_Step \/ ROI_Return

SpecROI == InitROI /\ [][NextROI]_vars

\* --------------------------------------- claims: generateFrames_temporalROI
Min(a, b) == IF a <= b THEN a ELSE b

\* C11 as stated: the number of returned frames equals the number of grid
\* entries.
C11_FramePerGridEntry ==
    pc = "done" => Len(ret.frames) = Len(time_steps)

\* C11, amended: never more frames than grid entries; a frame takes
\* threshold + 1 events (the counted ones and the one examined when the
\* counter is found full), so the number of returned frames is the smaller
\* of the number of grid entries and len(event_list) div (threshold + 1).
C11_FramesBoundedByGrid ==
    /\ Len(event_images_list) <= Len(time_steps)
    /\ pc = "done" =>
          Len(ret.frames) = Min(Len(time_steps),
                                Len(event_list) \div (event_threshold_classifier + 1))

C11_Witness ==
    /\ pc = "done"
    /\ Len(ret.frames) > 0
    /\ Len(ret.frames) < Len(time_steps)

\* Signed count at pixel q of the events at Python indices lo .. hi - 1.
BlockCount(lo, hi, q) ==
    Cardinality({j \in (lo + 1)..hi :
                    j <= Len(event_list) /\ Pix(event_list[j]) = q
                    /\ event_list[j].p > 0})
    - Cardinality({j \in (lo + 1)..hi :
                    j <= Len(event_list) /\ Pix(event_list[j]) = q
                    /\ event_list[j].p <= 0})

\* C19: frame k (k = 0, 1, ...) is the signed count of the events at indices
\* [k*T, (k+1)*T); every event before the returned remainder is in one of
\* these blocks; the counter is 0 after each emit.
C19_BlockCoverage ==
    LET T == event_threshold_classifier IN
    /\ \A f \in 1..Len(event_images_list) : \A q \in Pixels :
          event_images_list[f][q] = BlockCount((f - 1) * T, f * T, q)
    /\ \A k \in 1..Len(hist) : hist[k].broke => hist[k].bus = 0
    /\ pc = "done" =>
          Len(event_list) - Len(ret.rest) = Len(ret.frames) * T

\* ---------------------------------------------------- extractEventsByTime
\* event[2] > ts - time_window/2, over the integers: 2*t > 2*ts - time_window.
Kept(event, ts, tw) == tw = None \/ 2 * event.t > 2 * ts - Value(tw)

ClosesAtTs(event, ts, tw) == event.t > ts

\* event[2] > ts + time_window/2, over the integers.
Closes(event, ts, tw) == 2 * event.t > 2 * ts + Value(tw)

\* The inner loop from Python index i with the group collected so far.  With
\* time_window None the first test passes and the second one evaluates
\* None/2, a TypeError.
RECURSIVE ScanEX(_, _, _, _, _)
ScanEX(E, i, ts, tw, group) ==
    IF i >= Len(E) THEN [kind |-> "end", broke |-> FALSE, at |-> i, group |-> group]
    ELSE IF Kept(E[i + 1], ts, tw)
         THEN IF tw = None
              THEN [kind |-> "error", broke |-> FALSE, at |-> i,
                    group |-> Append(group, E[i + 1])]
              ELSE IF Closes(E[i + 1], ts, tw)
                   THEN [kind |-> "break", broke |-> TRUE, at |-> i,
                         group |-> Append(group, E[i + 1])]
                   ELSE ScanEX(E, i + 1, ts, tw, Append(group, E[i + 1]))
         ELSE ScanEX(E, i + 1, ts, tw, group)

CursorAfterEXAtBoundary(E, it, r) ==
    IF r.broke THEN r.at
    ELSE IF it < Len(E) THEN Len(E) ELSE it

\* event_iterator = i + 1, set at the top of every iteration.
CursorAfterEX(E, it, r) ==
    IF r.broke THEN r.at + 1
    ELSE IF it < Len(E) THEN Len(E) ELSE it

\* One iteration of `for ts in time_steps`.
EX_Step ==
    /\ pc = "loop"
    /\ tsIdx <= Len(time_steps)
    /\ LET ts == time_steps[tsIdx]
           r == ScanEX(event_list, event_iterator, ts, time_window, <<>>)
       IN  IF Len(event_list) = 0
           THEN \* the progress print divides by len(event_list)
                /\ pc' = "error"
                /\ ret' = [kind |-> "error", error |-> "ZeroDivisionError"]
                /\ UNCHANGED <<tsIdx, event_iterator, grouped_events_list, hist>>
           ELSE IF r.kind = "error"
           THEN /\ pc' = "error"
                /\ ret' = [kind |-> "error", error |-> "TypeError"]
                /\ UNCHANGED <<tsIdx, event_iterator, grouped_events_list, hist>>
           ELSE /\ grouped_events_list' =
                       IF r.broke THEN Append(grouped_events_list, r.group)
                       ELSE grouped_events_list
                /\ event_iterator' = CursorAfterEX(event_list, event_iterator, r)
                /\ hist' = Append(hist, [start |-> event_iterator,
                                         broke |-> r.broke, at |-> r.at,
                                         nframes |-> Len(grouped_events_list')])
                /\ tsIdx' = tsIdx + 1
                /\ UNCHANGED <<pc, ret>>
    /\ UNCHANGED <<event_list, time_steps, time_window, event_images_list,
                   callVars, roiVars, rotVars, ebVars, sfVars,
                   trainVars>>

\* return grouped_events_list
EX_Return ==
    /\ pc = "loop"
    /\ tsIdx > Len(time_steps)
    /\ pc' = "done"
    /\ ret' = [kind |-> "value", groups |-> grouped_events_list]
    /\ UNCHANGED <<event_list, time_steps, time_window, tsIdx, event_iterator,
                   event_images_list, hist, callVars, roiVars, exVars, rotVars,
                   ebVars, sfVars,
                   trainVars>>

InitEX ==
    /\ \E E \in EBLists, G \in Grids(1), tw \in Windows : Entry(E, G, tw)
    /\ grouped_events_list = <<>>
    /\ NoTrain /\ NoCaller /\ NoROI /\ NoRot /\ NoEB /\ NoSF

NextEX == EX_Step \/ EX_Return

SpecEX == InitEX /\ [][NextEX]_vars

\* ---------------------------------------------- claims: extractEventsByTime
\* The events at Python indices lo .. hi - 1 with timestamp > ts - window/2,
\* in stream order.
KeptOf(lo, hi, ts) ==
    LET InLow(e) == 2 * e.t > 2 * ts - Value(time_window)
    IN  SelectSeq(SubSeq(event_list, lo + 1, hi), InLow)

\* C14: the group emitted in a grid step holds, in stream order, the events
\* examined in the step with timestamp > ts - time_window/2; its last element
\* is the event that ended the step, the only one of the group with
\* timestamp > ts + time_window/2; the next step starts right after it.
C14_GroupContent ==
    \A k \in 1..Len(hist) :
        hist[k].broke =>
            LET ts == time_steps[k]
                g == grouped_events_list[hist[k].nframes]
                high == 2 * ts + Value(time_window)
            IN  /\ g = KeptOf(hist[k].start, hist[k].at + 1, ts)
                /\ Len(g) > 0
                /\ g[Len(g)] = event_list[hist[k].at + 1]
                /\ 2 * g[Len(g)].t > high
                /\ \A i \in 1..(Len(g) - 1) : 2 * g[i].t <= high
                /\ k < Len(hist) => hist[k + 1].start = hist[k].at + 1
                /\ k = Len(hist) => event_iterator = hist[k].at + 1

\* A step that passed over an event older than the window, kept one inside
\* it, ended at a later one, and was followed by another step.
C14_Witness ==
    \E k \in 1..(Len(hist) - 1) :
        /\ hist[k].broke
        /\ Len(grouped_events_list[hist[k].nframes]) >= 2
        /\ Len(grouped_events_list[hist[k].nframes]) < hist[k].at + 1 - hist[k].start

\* Number of events in a list of groups.
RECURSIVE TotalLen(_)
TotalLen(groups) ==
    IF groups = <<>> THEN 0 ELSE Len(Head(groups)) + TotalLen(Tail(groups))

\* The cursor after finished grid step k.
CursorAfterStep(k) == IF k < Len(hist) THEN hist[k + 1].start ELSE event_iterator

\* Event j (1-based) passes the lower test of grid step l.
InWindowOf(j, l) == 2 * event_list[j].t > 2 * time_steps[l] - Value(time_window)

\* C23: the cursor only moves forward; the emitted groups draw on disjoint,
\* ascending index ranges of the input, so no event is in two groups, also
\* when the windows overlap; the steps that emitted a group are a prefix of
\* the grid; a step that reached the end of the list emitted nothing, and no
\* later step did.
C23_NoSharing ==
    /\ event_iterator <= Len(event_list)
    /\ TotalLen(grouped_events_list) <= event_iterator
    /\ \A k \in 1..Len(hist) :
          /\ hist[k].start <= CursorAfterStep(k)
          /\ hist[k].broke =>
                /\ hist[k].nframes = k
                /\ Len(grouped_events_list[k]) <= hist[k].at + 1 - hist[k].start
                /\ CursorAfterStep(k) = hist[k].at + 1
                /\ \A l \in (k + 1)..Len(hist) : hist[l].start > hist[k].at
          /\ ~hist[k].broke =>
                /\ CursorAfterStep(k) = Len(event_list)
                /\ Len(grouped_events_list) = hist[k].nframes
                /\ \A l \in k..Len(hist) : ~hist[l].broke

\* Overlapping windows: a step emitted a group holding an event that is also
\* inside the next step's window, and the next step collected an event and
\* reached the end of the list.
C23_Witness ==
    \E k \in 1..(Len(hist) - 1) :
        /\ time_window # None
        /\ Value(time_window) > time_steps[k + 1] - time_steps[k]
        /\ hist[k].broke
        /\ \E j \in (hist[k].start + 1)..(hist[k].at + 1) :
              InWindowOf(j, k) /\ InWindowOf(j, k + 1)
        /\ ~hist[k + 1].broke
        /\ \E j \in (hist[k + 1].start + 1)..Len(event_list) : InWindowOf(j, k + 1)

\* ---------------------------------------------------- updateContactStatus
MaxTable == 3
MaxLabels == 2

\* The starting values of the nearest-entry search.
best_rot_diff == 100
best_rot_idx == 1

\* Reference vectors; only the first two components are read.
Vectors == {<<1, 0, 0>>, <<0, 1, 0>>, <<1, 0, 1>>, <<0 - 100, 0, 0>>}
Tables == UNION {[1..n -> Vectors] : n \in 0..MaxTable}
Labels == (0 - 1)..(MaxTable + 1)
LabelLists == UNION {[1..n -> Labels] : n \in 0..MaxLabels}

\* Quarter turns.  Cosine and sine are the integers they round to; only at
\* 0 degrees are the computed values exactly these (1.0 and 0.0).
Angles == {0, 90, 180, 270}
Cos(a) == CASE a = 0 -> 1 [] a = 90 -> 0 [] a = 180 -> 0 - 1 [] OTHER -> 0
Sin(a) == CASE a = 0 -> 0 [] a = 90 -> 1 [] a = 180 -> 0 [] OTHER -> 0 - 1
Exact(a) == a = 0

\* np.matmul(rot_mat, current_rotation[0:2]),
\* rot_mat = [[cos, sin], [-sin, cos]].
Rotate(a, v) ==
    <<Cos(a) * v[1] + Sin(a) * v[2], (0 - Sin(a)) * v[1] + Cos(a) * v[2]>>

\* diff_vals, squared.
Dist2(rot, v) ==
    (rot[1] - v[1]) * (rot[1] - v[1]) + (rot[2] - v[2]) * (rot[2] - v[2])

BetterOrEqual(best, d) == best >= d

\* if best_rot_diff > diff_vals, on the squares.
Better(best, d) == best > d

\* The search from table position i (1-based, the source's i): the set of
\* indices it can end with.  Where the rotation is inexact a tie of the exact
\* distances can fall either way.
RECURSIVE ScanRot(_, _, _, _, _, _)
ScanRot(T, v, i, best, idx, exact) ==
    IF i > Len(T) THEN {idx}
    ELSE LET d == Dist2(T[i], v)
         IN  IF Better(best, d) /\ (exact \/ best # d)
             THEN ScanRot(T, v, i + 1, d, i, exact)
             ELSE IF best = d /\ ~exact
                  THEN ScanRot(T, v, i + 1, d, i, exact)
                           \cup ScanRot(T, v, i + 1, best, idx, exact)
                  ELSE ScanRot(T, v, i + 1, best, idx, exact)

\* list_of_rotations[int(contact_status)-1]: a negative index counts from
\* the end, an index outside the list raises IndexError.
LookupIdx(T, k) == IF k - 1 < 0 THEN k - 1 + Len(T) ELSE k - 1
LookupOk(T, k) == LookupIdx(T, k) >= 0 /\ LookupIdx(T, k) < Len(T)

\* One iteration of `for contact_status in list_of_current_contact_status`.
Rot_Step ==
    /\ pc = "loop"
    /\ Len(list_of_rotated_contact_status) < Len(list_of_current_contact_status)
    /\ LET contact_status ==
               list_of_current_contact_status[Len(list_of_rotated_contact_status) + 1]
       IN  IF contact_status = 0
           THEN /\ list_of_rotated_contact_status' =
                       Append(list_of_rotated_contact_status, 0)
                /\ UNCHANGED <<pc, ret>>
           ELSE IF ~LookupOk(list_of_rotations, contact_status)
           THEN /\ pc' = "error"
                /\ ret' = [kind |-> "error", error |-> "IndexError"]
                /\ UNCHANGED list_of_rotated_contact_status
           ELSE LET current_rotation ==
                        list_of_rotations[LookupIdx(list_of_rotations, contact_status) + 1]
                    rotated_contact_status == Rotate(rotation_angle, current_rotation)
                IN  /\ \E idx \in ScanRot(list_of_rotations, rotated_contact_status, 1,
                                          best_rot_diff * best_rot_diff, best_rot_idx,
                                          Exact(rotation_angle)) :
                           list_of_rotated_contact_status' =
                               Append(list_of_rotated_contact_status, idx)
                    /\ UNCHANGED <<pc, ret>>
    /\ UNCHANGED <<event_list, time_steps, time_window, tsIdx, event_iterator,
                   event_images_list, hist, callVars, roiVars, exVars, ebVars,
                   sfVars, list_of_current_contact_status, list_of_rotations,
                   rotation_angle,
                   trainVars>>

\* return list_of_rotated_contact_status
Rot_Return ==
    /\ pc = "loop"
    /\ Len(list_of_rotated_contact_status) = Len(list_of_current_contact_status)
    /\ pc' = "done"
    /\ ret' = [kind |-> "value", labels |-> list_of_rotated_contact_status]
    /\ UNCHANGED <<event_list, time_steps, time_window, tsIdx, event_iterator,
                   event_images_list, hist, callVars, roiVars, exVars, rotVars,
                   ebVars, sfVars,
                   trainVars>>

InitRot ==
    /\ Entry(<<>>, <<>>, None)
    /\ list_of_current_contact_status \in LabelLists
    /\ list_of_rotations \in Tables
    /\ rotation_angle \in Angles
    /\ list_of_rotated_contact_status = <<>>
    /\ NoTrain /\ NoCaller /\ NoROI /\ NoEX /\ NoEB /\ NoSF

NextRot == Rot_Step \/ Rot_Return

SpecRot == InitRot /\ [][NextRot]_vars

\* ---------------------------------------------- claims: updateContactStatus
\* Labels of the table: 1 .. len(table).
InTable(k) == k >= 1 /\ k <= Len(list_of_rotations)

SameDirection(j, k) ==
    /\ list_of_rotations[j][1] = list_of_rotations[k][1]
    /\ list_of_rotations[j][2] = list_of_rotations[k][2]

\* C16 as stated: at 0 degrees label 0 maps to 0 and every label k of the
\* table maps to k.
C16_IdentityRotation ==
    rotation_angle = 0 =>
        \A n \in 1..Len(list_of_rotated_contact_status) :
            LET k == list_of_current_contact_status[n]
            IN  (k = 0 \/ InTable(k)) => list_of_rotated_contact_status[n] = k

\* C16, amended: at 0 degrees label 0 maps to 0 and a label k of the table
\* maps to the first label whose entry has the same first two components as
\* entry k: to k itself unless an earlier entry repeats entry k.
C16_IdentityFirstOccurrence ==
    rotation_angle = 0 =>
        \A n \in 1..Len(list_of_rotated_contact_status) :
            LET k == list_of_current_contact_status[n]
                out == list_of_rotated_contact_status[n]
            IN  /\ k = 0 => out = 0
                /\ InTable(k) =>
                      /\ out \in 1..k
                      /\ SameDirection(out, k)
                      /\ \A j \in 1..(out - 1) : ~SameDirection(j, k)

\* A finished call at 0 degrees that mapped one label beyond the first to
\* itself and another to an earlier label.
C16_Witness ==
    /\ pc = "done"
    /\ rotation_angle = 0
    /\ \E n \in 1..Len(ret.labels) :
          /\ list_of_current_contact_status[n] >= 2
          /\ ret.labels[n] = list_of_current_contact_status[n]
    /\ \E n \in 1..Len(ret.labels) :
          /\ InTable(list_of_current_contact_status[n])
          /\ ret.labels[n] < list_of_current_contact_status[n]

\* -------------------------------------------------------- TrainModel.train
MaxEpochs == 3
MaxTrain == 3
MaxVal == 3

\* The other operations' variables, idle here.
NoEvents == Entry(<<>>, <<>>, None)

\* some_list[i] on a Python list of length n: an index outside [-n, n)
\* raises IndexError.
ListIndexOk(i, n) == i >= 0 - n /\ i < n

\* self.val_losses[epoch - 1] if epoch > 0 else 'na': whether the progress
\* display of epoch e can be built when val_losses has n entries.
ProgressReadOk(e, n) == e > 0 => ListIndexOk(e - 1, n)

\* for epoch in trange(1, n_epochs + 1): the head of one epoch.
Train_Epoch ==
    /\ pc = "loop"
    /\ epoch <= n_epochs
    /\ lr' = Append(lr, epoch)
    /\ i_batch' = 0
    /\ pc' = "batches"
    /\ UNCHANGED <<ret, n_epochs, n_train, n_val, epoch, train_losses, val_losses>>
    /\ UNCHANGED <<event_list, time_steps, time_window, tsIdx, event_iterator,
                   event_images_list, hist, callVars, roiVars, exVars, rotVars,
                   ebVars, sfVars>>

\* One batch: the optimizer step, then the progress display.
Train_Batch ==
    /\ pc = "batches"
    /\ i_batch < n_train
    /\ IF ProgressReadOk(epoch, Len(val_losses))
       THEN /\ i_batch' = i_batch + 1
            /\ UNCHANGED <<pc, ret>>
       ELSE /\ pc' = "error"
            /\ ret' = [kind |-> "error", error |-> "IndexError"]
            /\ UNCHANGED i_batch
    /\ UNCHANGED <<n_epochs, n_train, n_val, epoch, train_losses, val_losses, lr>>
    /\ UNCHANGED <<event_list, time_steps, time_window, tsIdx, event_iterator,
                   event_images_list, hist, callVars, roiVars, exVars, rotVars,
                   ebVars, sfVars>>

\* After the last batch: epoch_loss /= len(train_data), validate() with its
\* loss /= len(val_data), then the two appends.
Train_EpochEnd ==
    /\ pc = "batches"
    /\ i_batch = n_train
    /\ IF n_train = 0 \/ n_val = 0
       THEN /\ pc' = "error"
            /\ ret' = [kind |-> "error", error |-> "ZeroDivisionError"]
            /\ UNCHANGED <<epoch, train_losses, val_losses>>
       ELSE /\ train_losses' = Append(train_losses, epoch)
            /\ val_losses' = Append(val_losses, epoch)
            /\ epoch' = epoch + 1
            /\ pc' = "loop"
            /\ UNCHANGED ret
    /\ UNCHANGED <<n_epochs, n_train, n_val, i_batch, lr>>
    /\ UNCHANGED <<event_list, time_steps, time_window, tsIdx, event_iterator,
                   event_images_list, hist, callVars, roiVars, exVars, rotVars,
                   ebVars, sfVars>>

\* train() returns nothing; the lists stay on the object.
Train_Return ==
    /\ pc = "loop"
    /\ epoch > n_epochs
    /\ pc' = "done"
    /\ ret' = [kind |-> "value"]
    /\ UNCHANGED trainVars
    /\ UNCHANGED <<event_list, time_steps, time_window, tsIdx, event_iterator,
                   event_images_list, hist, callVars, roiVars, exVars, rotVars,
                   ebVars, sfVars>>

InitTrain ==
    /\ NoEvents
    /\ n_epochs \in 0..MaxEpochs
    /\ n_train \in 0..MaxTrain
    /\ n_val \in 0..MaxVal
    /\ epoch = 1
    /\ i_batch = 0
    /\ train_losses = <<>> /\ val_losses = <<>> /\ lr = <<>>
    /\ NoCaller /\ NoROI /\ NoEX /\ NoRot /\ NoEB /\ NoSF

NextTrain == Train_Epoch \/ Train_Batch \/ Train_EpochEnd \/ Train_Return

SpecTrain == InitTrain /\ [][NextTrain]_vars

\* ------------------------------------------------ claims: TrainModel.train
\* C24: with a non-empty training loader and n_epochs >= 1, train() ends
\* without raising and leaves n_epochs entries in each of train_losses,
\* val_losses and lr.
C24_TrainCompletes ==
    (n_train >= 1 /\ n_epochs >= 1 /\ Finished) =>
        /\ pc = "done"
        /\ Len(train_losses) = n_epochs
        /\ Len(val_losses) = n_epochs
        /\ Len(lr) = n_epochs

====
